---- MODULE Spec2Model ----
(***************************************************************************)
(* Model of src/src/download_manager.py: the DownloadItem record, the      *)
(* DownloadManager facade (add/pause/resume/start/stop), the worker loop,  *)
(* the resumable transfer (_process_download), the on-disk files           *)
(* (<name>, <name>.part, <name>.progress, download_state.json) and a       *)
(* process kill followed by a restart (load_state / from_dict).            *)
(*                                                                         *)
(* Two kinds of threads take steps: the caller thread (one, the UI) and    *)
(* the worker threads start() creates.  Every action is one atomic step of *)
(* one thread; a lock section of the code is one step.                     *)
(* Sizes are counted in bytes, scaled down: a resource has ResourceSize    *)
(* bytes and a chunk has at most CHUNK_SIZE bytes.                         *)
(***************************************************************************)
EXTENDS Integers, Sequences, FiniteSets, TLC

\* ---------------------------------------------------------------- bounds
\* size in bytes of every resource the server holds
ResourceSize == 2
\* largest chunk response.iter_content yields (CHUNK_SIZE, scaled down)
CHUNK_SIZE == 1
\* thread objects that can exist in one process run
MaxThreads == 2
\* longest work queue the model explores
MaxQueue == 2
\* calls of the facade the caller makes in one behaviour
MaxCalls == 3
\* process kills followed by a restart in one behaviour
MaxRestarts == 1
\* calls in one behaviour of the one-item specification SpecRetry
RetryCalls == 6
\* calls in one behaviour of the well-behaved specification SpecIdeal
IdealCalls == 4
\* calls in one behaviour of the failure-free specification SpecResume
ResumeCalls == 5
\* calls in one behaviour of the specification with a kill SpecRecover
RecoverCalls == 3
\* calls in one behaviour of the specification with failures SpecFail
FailCalls == 3
\* calls in one behaviour of the specification of filenames SpecNames
NameCalls == 3
\* calls the caller makes in SpecCalls
CallCalls == 4

\* ---------------------------------------------------------------- values
\* a file that does not exist (os.path.exists is False)
NoFile == -1
\* a progress file whose content int() does not parse
Garbage == -2
\* error_message is None
NoMsg == "None"
\* no thread object (worker_thread is None), no item held
NoThread == 0
NoItem == "-"

\* The URLs the caller enters: two hosts serving a file of the same name,
\* and one more file.
Urls ==
    { [host |-> "h1", base |-> "a"],
      [host |-> "h2", base |-> "a"],
      [host |-> "h1", base |-> "b"] }

Threads == 1..MaxThreads

VARIABLES
    downloads,       \* self.downloads: filename -> item record
    order,           \* insertion order of the keys of self.downloads
    download_queue,  \* self.download_queue: sequence of item references
    stop_event,      \* self.stop_event (global stop signal)
    worker_thread,   \* self.worker_thread: NoThread or a thread id
    w,               \* per worker thread: position and locals
    c,               \* the caller thread: position, locals, last return value
    part,            \* <filename>.part on disk: NoFile or its size
    progress,        \* <filename>.progress on disk: NoFile, Garbage or its integer
    final,           \* <filename> on disk: NoFile or its size
    snapshot,        \* download_state.json: missing, corrupt, or ok with its list of records
    hashseed,        \* the per-process seed of Python's hash()
    leftover,        \* history: final files of an earlier process run whose
                     \* completion the loaded collection does not record
    calls,           \* facade calls the caller still makes (bounds the exploration)
    restarts         \* kills that can still happen (bounds the exploration)

mem == <<downloads, order, download_queue, stop_event, worker_thread>>
disk == <<part, progress, final, snapshot>>
proc == <<hashseed, leftover>>
vars == <<downloads, order, download_queue, stop_event, worker_thread, w, c,
          part, progress, final, snapshot, hashseed, leftover, calls, restarts>>

\* ------------------------------------------------------------ DownloadItem
\* hash(url) of this process: differs between processes (the seed)
Hash(url, seed) == IF seed = 0 THEN "h0" ELSE "h1"

\* DownloadItem._generate_filename
_generate_filename(url, seed) ==
    IF url.base = ""
    THEN (IF Hash(url, seed) = "h0" THEN "download_h0.unknown" ELSE "download_h1.unknown")
    ELSE url.base

Names == { _generate_filename(u, 0) : u \in Urls }

valid_statuses == {"queued", "downloading", "paused", "completed", "error"}

\* DownloadItem.__init__
DownloadItem(url, filename, total_size, downloaded_size, status, error_message) ==
    [ url |-> url,
      filename |-> filename,
      total_size |-> total_size,
      downloaded_size |-> downloaded_size,
      status |-> IF status \in valid_statuses THEN status ELSE "queued",
      error_message |-> error_message,
      pause_event |-> FALSE,
      stop_event |-> FALSE ]

\* mutant of to_dict: the error message is not written
to_dict_drops_message(item) ==
    [ url |-> item.url,
      filename |-> item.filename,
      total_size |-> item.total_size,
      downloaded_size |-> item.downloaded_size,
      status |-> item.status,
      error_message |-> NoMsg ]

\* DownloadItem.to_dict
to_dict(item) ==
    [ url |-> item.url,
      filename |-> item.filename,
      total_size |-> item.total_size,
      downloaded_size |-> item.downloaded_size,
      status |-> item.status,
      error_message |-> item.error_message ]

\* mutant of from_dict: the recorded size is kept when the progress file is read
from_dict_keeps_recorded_size(data, prog, partf, fin) ==
    LET item == DownloadItem(data.url, data.filename, data.total_size,
                             data.downloaded_size, data.status, data.error_message)
    IN  IF item.status \in {"paused", "error", "downloading"}
        THEN IF prog # NoFile /\ prog # Garbage
             THEN [item EXCEPT !.status = IF item.status = "downloading"
                                          THEN "paused" ELSE item.status]
             ELSE [item EXCEPT !.downloaded_size = 0, !.status = "queued"]
        ELSE IF item.status = "completed" /\ fin = NoFile
             THEN [item EXCEPT !.status = "queued", !.downloaded_size = 0]
             ELSE item

\* DownloadItem.from_dict: the item a record loads as, given the files on disk
from_dict(data, prog, partf, fin) ==
    LET item == DownloadItem(data.url, data.filename, data.total_size,
                             data.downloaded_size, data.status, data.error_message)
    IN  IF item.status \in {"paused", "error", "downloading"}
        THEN IF prog # NoFile
             THEN IF prog # Garbage
                  THEN [item EXCEPT !.downloaded_size = prog,
                                    !.status = IF item.status = "downloading"
                                               THEN "paused" ELSE item.status]
                  ELSE [item EXCEPT !.downloaded_size = 0, !.status = "queued"]
             ELSE [item EXCEPT !.downloaded_size = 0, !.status = "queued"]
        ELSE IF item.status = "completed" /\ fin = NoFile
             THEN [item EXCEPT !.status = "queued", !.downloaded_size = 0]
             ELSE item

\* mutant of from_dict_part: a reset record keeps its partial file
from_dict_part_keeps_file(data, prog, partf) == partf

\* from_dict's effect on the partial file of the record
from_dict_part(data, prog, partf) ==
    IF data.status \in {"paused", "error", "downloading"} /\ prog \in {NoFile, Garbage}
    THEN NoFile ELSE partf

\* from_dict's effect on the progress file of the record
from_dict_progress(data, prog) ==
    IF data.status \in {"paused", "error", "downloading"} /\ prog = Garbage
    THEN NoFile ELSE prog

\* ---------------------------------------------------------------- helpers
\* threading.Thread.is_alive
is_alive(t) == w[t].pc # "dead"

\* self.worker_thread and self.worker_thread.is_alive()
WorkerRunning == worker_thread # NoThread /\ is_alive(worker_thread)

\* for item in self.downloads.values() if item.status in S (dict order)
ItemsWith(S) == SelectSeq(order, LAMBDA k : downloads[k].status \in S)

\* the keys of a sequence of keys
Range(s) == { s[i] : i \in 1..Len(s) }

\* the locals of a worker thread outside an attempt
WorkerLocals(pc) ==
    [ pc |-> pc, item |-> NoItem, current_size |-> 0, file_mode |-> "wb",
      range |-> NoFile, body |-> 0, pos |-> 0,
      saved_size |-> NoFile, actual_part_size |-> 0, is_resuming |-> FALSE,
      state |-> <<>> ]

\* the caller thread between two calls, its last call op having returned r
Returned(op, r) ==
    [ pc |-> "idle", op |-> op, arg |-> NoItem, ret |-> r, state |-> <<>>,
      items |-> <<>>, next |-> "-", graceful |-> FALSE, active |-> FALSE ]

\* the caller thread inside the call op(arg), at position pc
Calling(op, arg, pc) == [Returned(op, "None") EXCEPT !.pc = pc, !.arg = arg]

\* the caller is free to make its next call
CanCall == c.pc = "idle" /\ calls > 0

\* the state list save_state builds under the lock
StateList == [ i \in 1..Len(order) |-> to_dict(downloads[order[i]]) ]

\* --------------------------------------------------------------- __init__
\* the manager right after construction in a fresh directory, with the
\* number of calls and of kills a behaviour goes on to explore
InitWith(ncalls, nrestarts) ==
    /\ downloads = << >>
    /\ order = << >>
    /\ download_queue = << >>
    /\ stop_event = FALSE
    /\ worker_thread = NoThread
    /\ w = [ t \in Threads |-> WorkerLocals("dead") ]
    /\ c = Returned("__init__", "None")
    /\ part = [ n \in Names |-> NoFile ]
    /\ progress = [ n \in Names |-> NoFile ]
    /\ final = [ n \in Names |-> NoFile ]
    /\ snapshot = [kind |-> "missing", downloads |-> <<>>]
    /\ hashseed = 0
    /\ leftover = {}
    /\ calls = ncalls
    /\ restarts = nrestarts

Init == InitWith(MaxCalls, MaxRestarts)

\* ------------------------------------------------------------- save_state
\* save_state, first half: the state list is built under the lock
\* (caller thread)
save_state_lock ==
    /\ c.pc = "save_lock"
    /\ c' = [c EXCEPT !.pc = "save_write", !.state = StateList]
    /\ UNCHANGED <<mem, w, disk, proc, calls, restarts>>

\* save_state, second half: json.dump to STATE_FILE; then the rest of the
\* calling operation: start() goes on to create the thread, the others return
save_state_write ==
    /\ c.pc = "save_write"
    /\ snapshot' = [kind |-> "ok", downloads |-> c.state]
    /\ c' = IF c.next = "spawn"
            THEN [c EXCEPT !.pc = "spawn", !.state = <<>>]
            ELSE Returned(c.op, c.next)
    /\ UNCHANGED <<mem, w, part, progress, final, proc, calls, restarts>>

\* mutant of add_download: no check for a known filename
add_download_no_dedup(url) ==
    /\ CanCall
    /\ Len(download_queue) < MaxQueue
    /\ calls' = calls - 1
    /\ LET item == DownloadItem(url, _generate_filename(url, hashseed), 0, 0,
                                "queued", NoMsg)
       IN  /\ downloads' = (item.filename :> item) @@ downloads
           /\ order' = IF item.filename \in DOMAIN downloads THEN order
                        ELSE Append(order, item.filename)
           /\ c' = Calling("add_download", item.filename, "add_put")
    /\ UNCHANGED <<download_queue, stop_event, worker_thread, w, disk, proc, restarts>>

\* ----------------------------------------------------------- add_download
\* add_download, lock section: reject a known filename, else insert
add_download(url) ==
    /\ CanCall
    /\ Len(download_queue) < MaxQueue
    /\ calls' = calls - 1
    /\ LET item == DownloadItem(url, _generate_filename(url, hashseed), 0, 0,
                                "queued", NoMsg)
       IN  IF item.filename \in DOMAIN downloads
           THEN /\ c' = Returned("add_download", "False")
                /\ UNCHANGED <<downloads, order>>
           ELSE /\ downloads' = (item.filename :> item) @@ downloads
                /\ order' = Append(order, item.filename)
                /\ c' = Calling("add_download", item.filename, "add_put")
    /\ UNCHANGED <<download_queue, stop_event, worker_thread, w, disk, proc, restarts>>

\* add_download: self.download_queue.put(item), then save_state
add_put ==
    /\ c.pc = "add_put"
    /\ download_queue' = Append(download_queue, c.arg)
    /\ c' = [c EXCEPT !.pc = "save_lock", !.next = "True"]
    /\ UNCHANGED <<downloads, order, stop_event, worker_thread, w, disk,
                   proc, calls, restarts>>

\* mutant of pause_download: the status of the item is not looked at
pause_download_any_status(filename) ==
    /\ CanCall
    /\ calls' = calls - 1
    /\ IF filename \in DOMAIN downloads
       THEN /\ downloads' = [downloads EXCEPT ![filename].pause_event = TRUE]
            /\ c' = Returned("pause_download", "True")
       ELSE /\ c' = Returned("pause_download", "False")
            /\ UNCHANGED downloads
    /\ UNCHANGED <<order, download_queue, stop_event, worker_thread, w, disk,
                   proc, restarts>>

\* --------------------------------------------------------- pause_download
pause_download(filename) ==
    /\ CanCall
    /\ calls' = calls - 1
    /\ IF filename \in DOMAIN downloads /\ downloads[filename].status = "downloading"
       THEN /\ downloads' = [downloads EXCEPT ![filename].pause_event = TRUE]
            /\ c' = Returned("pause_download", "True")
       ELSE /\ c' = Returned("pause_download", "False")
            /\ UNCHANGED downloads
    /\ UNCHANGED <<order, download_queue, stop_event, worker_thread, w, disk,
                   proc, restarts>>

\* mutant of resume_download: the two signals of the item are left as they are
resume_download_keeps_signals(filename) ==
    /\ CanCall
    /\ calls' = calls - 1
    /\ IF filename \in DOMAIN downloads /\ downloads[filename].status = "paused"
       THEN /\ Len(download_queue) < MaxQueue
            /\ downloads' = [downloads EXCEPT ![filename].status = "queued"]
            /\ download_queue' = Append(download_queue, filename)
            /\ c' = [Calling("resume_download", filename, "save_lock") EXCEPT !.next = "True"]
       ELSE /\ c' = Returned("resume_download", "False")
            /\ UNCHANGED <<downloads, download_queue>>
    /\ UNCHANGED <<order, stop_event, worker_thread, w, disk, proc, restarts>>

\* -------------------------------------------------------- resume_download
\* resume_download, lock section (the put is inside the lock); save_state
\* follows only when the item was resumed
resume_download(filename) ==
    /\ CanCall
    /\ calls' = calls - 1
    /\ IF filename \in DOMAIN downloads /\ downloads[filename].status = "paused"
       THEN /\ Len(download_queue) < MaxQueue
            /\ downloads' = [downloads EXCEPT ![filename].status = "queued",
                                              ![filename].pause_event = FALSE,
                                              ![filename].stop_event = FALSE]
            /\ download_queue' = Append(download_queue, filename)
            /\ c' = [Calling("resume_download", filename, "save_lock") EXCEPT !.next = "True"]
       ELSE /\ c' = Returned("resume_download", "False")
            /\ UNCHANGED <<downloads, download_queue>>
    /\ UNCHANGED <<order, stop_event, worker_thread, w, disk, proc, restarts>>

\* -------------------------------------------------------------- pause_all
pause_all ==
    /\ CanCall
    /\ calls' = calls - 1
    /\ downloads' = [ k \in DOMAIN downloads |->
                        IF downloads[k].status = "downloading"
                        THEN [downloads[k] EXCEPT !.pause_event = TRUE]
                        ELSE downloads[k] ]
    /\ c' = Returned("pause_all", IF ItemsWith({"downloading"}) # <<>> THEN "True" ELSE "False")
    /\ UNCHANGED <<order, download_queue, stop_event, worker_thread, w, disk,
                   proc, restarts>>

\* mutant of resume_all: every item that is neither downloading nor queued
\* is resumed
resume_all_not_downloading ==
    /\ CanCall
    /\ calls' = calls - 1
    /\ Len(download_queue) + Len(ItemsWith({"paused", "error", "completed"})) <= MaxQueue
    /\ downloads' = [ k \in DOMAIN downloads |->
                        IF downloads[k].status \in {"paused", "error", "completed"}
                        THEN [downloads[k] EXCEPT !.status = "queued",
                                                  !.pause_event = FALSE,
                                                  !.stop_event = FALSE]
                        ELSE downloads[k] ]
    /\ c' = [Calling("resume_all", NoItem, "resume_all_put") EXCEPT
                         !.items = ItemsWith({"paused", "error", "completed"})]
    /\ UNCHANGED <<order, download_queue, stop_event, worker_thread, w, disk,
                   proc, restarts>>

\* ------------------------------------------------------------- resume_all
\* resume_all, lock section: every paused item becomes queued
resume_all ==
    /\ CanCall
    /\ calls' = calls - 1
    /\ Len(download_queue) + Len(ItemsWith({"paused"})) <= MaxQueue
    /\ downloads' = [ k \in DOMAIN downloads |->
                        IF downloads[k].status = "paused"
                        THEN [downloads[k] EXCEPT !.status = "queued",
                                                  !.pause_event = FALSE,
                                                  !.stop_event = FALSE]
                        ELSE downloads[k] ]
    /\ c' = [Calling("resume_all", NoItem, "resume_all_put") EXCEPT
                                     !.items = ItemsWith({"paused"})]
    /\ UNCHANGED <<order, download_queue, stop_event, worker_thread, w, disk,
                   proc, restarts>>

\* resume_all: the puts, then save_state if anything was resumed
resume_all_put ==
    /\ c.pc = "resume_all_put"
    /\ download_queue' = download_queue \o c.items
    /\ c' = IF c.items # <<>>
            THEN [c EXCEPT !.pc = "save_lock", !.next = "True", !.items = <<>>]
            ELSE Returned("resume_all", "False")
    /\ UNCHANGED <<downloads, order, stop_event, worker_thread, w, disk,
                   proc, calls, restarts>>

\* ------------------------------------------------------------------ start
\* mutant of StartGuard: start() does not look at the worker thread
StartGuard_always == TRUE

\* start: nothing happens while the worker thread is alive; else the global
\* stop signal is cleared and every paused or error item becomes queued
StartGuard == ~WorkerRunning

start ==
    /\ CanCall
    /\ calls' = calls - 1
    /\ IF ~StartGuard
       THEN /\ c' = Returned("start", "None")
            /\ UNCHANGED <<downloads, stop_event>>
       ELSE /\ Len(download_queue) + Len(ItemsWith({"paused", "error"})) <= MaxQueue
            /\ stop_event' = FALSE
            /\ downloads' = [ k \in DOMAIN downloads |->
                                IF downloads[k].status \in {"paused", "error"}
                                THEN [downloads[k] EXCEPT !.status = "queued",
                                                          !.pause_event = FALSE,
                                                          !.stop_event = FALSE]
                                ELSE downloads[k] ]
            /\ c' = [Calling("start", NoItem, "start_put") EXCEPT
                                             !.items = ItemsWith({"paused", "error"})]
    /\ UNCHANGED <<order, download_queue, worker_thread, w, disk, proc, restarts>>

\* start: the puts, then save_state if anything was queued
start_put ==
    /\ c.pc = "start_put"
    /\ download_queue' = download_queue \o c.items
    /\ c' = IF c.items # <<>>
            THEN [c EXCEPT !.pc = "save_lock", !.next = "spawn", !.items = <<>>]
            ELSE [c EXCEPT !.pc = "spawn"]
    /\ UNCHANGED <<downloads, order, stop_event, worker_thread, w, disk,
                   proc, calls, restarts>>

\* start: threading.Thread(target=self._worker).start()
start_spawn ==
    /\ c.pc = "spawn"
    /\ \E t \in Threads :
         /\ ~is_alive(t)
         /\ \A u \in Threads : ~is_alive(u) => t <= u
         /\ worker_thread' = t
         /\ w' = [w EXCEPT ![t] = WorkerLocals("loop")]
    /\ c' = Returned("start", "None")
    /\ UNCHANGED <<downloads, order, download_queue, stop_event, disk,
                   proc, calls, restarts>>

\* ------------------------------------------------------------------- stop
\* stop: without a live worker only save_state; else set the global signal
stop(graceful) ==
    /\ CanCall
    /\ calls' = calls - 1
    /\ IF ~WorkerRunning
       THEN /\ c' = [Calling("stop", NoItem, "save_lock") EXCEPT !.next = "None"]
            /\ UNCHANGED stop_event
       ELSE /\ stop_event' = TRUE
            /\ c' = [Calling("stop", NoItem, "stop_lock") EXCEPT !.graceful = graceful]
    /\ UNCHANGED <<downloads, order, download_queue, worker_thread, w, disk,
                   proc, restarts>>

\* mutant of stop_lock: the items that are downloading are not signalled
stop_lock_signals_nothing ==
    /\ c.pc = "stop_lock"
    /\ c' = [c EXCEPT !.pc = IF c.graceful THEN "stop_join" ELSE "save_lock",
                      !.next = "None",
                      !.active = ItemsWith({"downloading"}) # <<>>]
    /\ UNCHANGED <<downloads, order, download_queue, stop_event, worker_thread, w,
                   disk, proc, calls, restarts>>

\* stop, lock section: signal every item that is downloading
stop_lock ==
    /\ c.pc = "stop_lock"
    /\ downloads' = [ k \in DOMAIN downloads |->
                        IF downloads[k].status = "downloading"
                        THEN [downloads[k] EXCEPT !.stop_event = TRUE]
                        ELSE downloads[k] ]
    /\ c' = [c EXCEPT !.pc = IF c.graceful THEN "stop_join" ELSE "save_lock",
                      !.next = "None",
                      !.active = ItemsWith({"downloading"}) # <<>>]
    /\ UNCHANGED <<order, download_queue, stop_event, worker_thread, w, disk,
                   proc, calls, restarts>>

\* mutant of stop_join: join without a timeout returns only when the worker
\* has ended
stop_join_without_timeout ==
    /\ c.pc = "stop_join"
    /\ ~WorkerRunning
    /\ c' = [c EXCEPT !.pc = "save_lock"]
    /\ UNCHANGED <<mem, w, disk, proc, calls, restarts>>

\* stop: worker_thread.join(timeout) returns when the worker has ended or
\* when the timeout has passed, whichever comes first
stop_join ==
    /\ c.pc = "stop_join"
    /\ c' = [c EXCEPT !.pc = "save_lock"]
    /\ UNCHANGED <<mem, w, disk, proc, calls, restarts>>

\* ---------------------------------------------------------------- _worker
\* the item a worker thread holds
Item(t) == downloads[w[t].item]

\* _worker: while not self.stop_event.is_set()
worker_loop(t) ==
    /\ w[t].pc = "loop"
    /\ w' = [w EXCEPT ![t].pc = IF stop_event THEN "dead" ELSE "get"]
    /\ UNCHANGED <<mem, c, disk, proc, calls, restarts>>

\* mutant of worker_get: the item put last is taken first
worker_get_takes_last(t) ==
    /\ w[t].pc = "get"
    /\ IF download_queue # <<>>
       THEN /\ download_queue' = SubSeq(download_queue, 1, Len(download_queue) - 1)
            /\ w' = [w EXCEPT ![t].pc = "got",
                              ![t].item = download_queue[Len(download_queue)]]
       ELSE /\ w' = [w EXCEPT ![t].pc = "loop"]
            /\ UNCHANGED download_queue
    /\ UNCHANGED <<downloads, order, stop_event, worker_thread, c, disk,
                   proc, calls, restarts>>

\* _worker: self.download_queue.get(timeout=1), or queue.Empty and continue
worker_get(t) ==
    /\ w[t].pc = "get"
    /\ IF download_queue # <<>>
       THEN /\ download_queue' = Tail(download_queue)
            /\ w' = [w EXCEPT ![t].pc = "got", ![t].item = Head(download_queue)]
       ELSE /\ w' = [w EXCEPT ![t].pc = "loop"]
            /\ UNCHANGED download_queue
    /\ UNCHANGED <<downloads, order, stop_event, worker_thread, c, disk,
                   proc, calls, restarts>>

\* _worker: the checks between the get and the attempt
worker_dispatch(t) ==
    /\ w[t].pc = "got"
    /\ IF stop_event
       THEN /\ w' = [w EXCEPT ![t] = WorkerLocals("dead")]
            /\ UNCHANGED downloads
       ELSE IF Item(t).stop_event \/ Item(t).status = "completed"
       THEN /\ w' = [w EXCEPT ![t] = WorkerLocals("loop")]
            /\ UNCHANGED downloads
       ELSE /\ downloads' = [downloads EXCEPT ![w[t].item].status = "queued"]
            /\ w' = [w EXCEPT ![t].pc = "begin"]
    /\ UNCHANGED <<order, download_queue, stop_event, worker_thread, c, disk,
                   proc, calls, restarts>>

\* _worker: task_done, then save_state's lock section
worker_after(t) ==
    /\ w[t].pc = "after"
    /\ w' = [w EXCEPT ![t] = [WorkerLocals("save_write") EXCEPT !.state = StateList]]
    /\ UNCHANGED <<mem, c, disk, proc, calls, restarts>>

\* _worker: save_state's json.dump, then back to the top of the loop
worker_save_write(t) ==
    /\ w[t].pc = "save_write"
    /\ snapshot' = [kind |-> "ok", downloads |-> w[t].state]
    /\ w' = [w EXCEPT ![t] = WorkerLocals("loop")]
    /\ UNCHANGED <<mem, c, part, progress, final, proc, calls, restarts>>

\* ------------------------------------------------------ _process_download
\* the attempt starts: status downloading, message and pause signal cleared
process_begin(t) ==
    /\ w[t].pc = "begin"
    /\ downloads' = [downloads EXCEPT ![w[t].item].status = "downloading",
                                      ![w[t].item].error_message = NoMsg,
                                      ![w[t].item].pause_event = FALSE]
    /\ w' = [w EXCEPT ![t].pc = "resume", ![t].current_size = 0,
                      ![t].file_mode = "wb", ![t].range = NoFile]
    /\ UNCHANGED <<order, download_queue, stop_event, worker_thread, c, disk,
                   proc, calls, restarts>>

\* "Resume Logic": what the progress file and the partial file say
ResumeCase(prog, partf) ==
    IF prog = NoFile THEN "fresh"
    ELSE IF prog = Garbage THEN "unreadable"
    ELSE IF (IF partf # NoFile THEN partf ELSE 0) = prog /\ prog > 0 THEN "resume"
    ELSE IF prog > 0 THEN "mismatch"
    ELSE "zero"

process_resume(t) ==
    LET f == w[t].item
        kind == ResumeCase(progress[f], part[f])
    IN  /\ w[t].pc = "resume"
        /\ w' = [w EXCEPT ![t].pc = "request",
                          ![t].saved_size = progress[f],
                          ![t].actual_part_size = IF part[f] # NoFile THEN part[f] ELSE 0,
                          ![t].current_size = IF kind = "resume" THEN progress[f] ELSE 0,
                          ![t].range = IF kind = "resume" THEN progress[f] ELSE NoFile,
                          ![t].file_mode = IF kind = "resume" THEN "ab" ELSE "wb"]
        /\ downloads' = [downloads EXCEPT ![f].downloaded_size =
                            IF kind = "resume" THEN progress[f]
                            ELSE IF kind \in {"mismatch", "unreadable"} THEN 0
                            ELSE @]
        /\ part' = IF kind \in {"mismatch", "unreadable"}
                   THEN [part EXCEPT ![f] = NoFile] ELSE part
        /\ progress' = IF kind \in {"mismatch", "unreadable"}
                       THEN [progress EXCEPT ![f] = NoFile] ELSE progress
        /\ UNCHANGED <<order, download_queue, stop_event, worker_thread, c,
                       final, snapshot, proc, calls, restarts>>

\* The answers of the server to a GET with or without a Range header
\* (offset = NoFile: no Range header).  length, total = NoFile: header absent.
Responses(offset) ==
    LET full == { [code |-> 200, length |-> l, total |-> NoFile, body |-> ResourceSize]
                    : l \in {ResourceSize, NoFile} }
        rest == IF offset # NoFile /\ offset < ResourceSize
                THEN { [code |-> 206, length |-> ResourceSize - offset, total |-> tt,
                        body |-> ResourceSize - offset] : tt \in {ResourceSize, NoFile} }
                ELSE {}
    IN  full \cup rest

\* the except requests.exceptions.RequestException branch, on item it
RequestExceptionHandler(it) ==
    [it EXCEPT !.status = "error", !.error_message = "RequestException"]

\* the progress file after that branch
RequestExceptionProgress(it, prog) ==
    IF it.downloaded_size > 0 THEN it.downloaded_size ELSE prog

\* mutant of process_request: a 200 answer to a range request is taken for
\* the rest of the body
process_request_appends_full_body(t, r) ==
    LET f == w[t].item
        total1 == IF w[t].current_size > 0 /\ r.code = 206 /\ r.total # NoFile
                  THEN r.total ELSE Item(t).total_size
        total2 == IF total1 <= 0 /\ r.length # NoFile
                  THEN w[t].current_size + r.length ELSE total1
    IN  /\ w[t].pc = "request"
        /\ r \in Responses(w[t].range)
        /\ w' = [w EXCEPT ![t].pc = "open", ![t].body = r.body,
                          ![t].range = NoFile,
                          ![t].is_resuming = (w[t].current_size > 0 /\ r.code = 206),
                          ![t].saved_size = NoFile,
                          ![t].actual_part_size = 0]
        /\ downloads' = [downloads EXCEPT ![f].total_size = total2]
        /\ UNCHANGED <<order, download_queue, stop_event, worker_thread, c,
                       part, progress, final, snapshot, proc, calls, restarts>>

\* session.get and raise_for_status succeed: "Handle Resume Response" and
\* "Get Total Size"
process_request(t, r) ==
    LET f == w[t].item
        ignored == w[t].current_size > 0 /\ r.code # 206
        size == IF ignored THEN 0 ELSE w[t].current_size
        total1 == IF w[t].current_size > 0 /\ r.code = 206 /\ r.total # NoFile
                  THEN r.total ELSE Item(t).total_size
        total2 == IF total1 <= 0 /\ r.length # NoFile THEN size + r.length ELSE total1
    IN  /\ w[t].pc = "request"
        /\ r \in Responses(w[t].range)
        /\ w' = [w EXCEPT ![t].pc = "open", ![t].body = r.body,
                          ![t].current_size = size,
                          ![t].file_mode = IF ignored THEN "wb" ELSE @,
                          ![t].range = NoFile,
                          ![t].is_resuming = (w[t].current_size > 0 /\ r.code = 206),
                          ![t].saved_size = NoFile,
                          ![t].actual_part_size = 0]
        /\ downloads' = [downloads EXCEPT
                            ![f].downloaded_size = IF ignored THEN 0 ELSE @,
                            ![f].total_size = total2]
        /\ part' = IF ignored THEN [part EXCEPT ![f] = NoFile] ELSE part
        /\ progress' = IF ignored THEN [progress EXCEPT ![f] = NoFile] ELSE progress
        /\ UNCHANGED <<order, download_queue, stop_event, worker_thread, c,
                       final, snapshot, proc, calls, restarts>>

\* session.get or raise_for_status raises (no connection, 4xx, 5xx)
process_request_fails(t) ==
    LET f == w[t].item
    IN  /\ w[t].pc = "request"
        /\ downloads' = [downloads EXCEPT ![f] = RequestExceptionHandler(@)]
        /\ progress' = [progress EXCEPT ![f] = RequestExceptionProgress(Item(t), @)]
        /\ w' = [w EXCEPT ![t] = [WorkerLocals("after") EXCEPT !.item = f]]
        /\ UNCHANGED <<order, download_queue, stop_event, worker_thread, c,
                       part, final, snapshot, proc, calls, restarts>>

\* mutant of process_open: the file is always opened with mode 'wb'
process_open_truncates(t) ==
    LET f == w[t].item
    IN  /\ w[t].pc = "open"
        /\ part' = [part EXCEPT ![f] = 0]
        /\ w' = [w EXCEPT ![t].pc = "stream",
                          ![t].pos = 0,
                          ![t].current_size = 0,
                          ![t].file_mode = "wb"]
        /\ UNCHANGED <<mem, c, progress, final, snapshot, proc, calls, restarts>>

\* open(item.temp_filename, file_mode) and the seek
process_open(t) ==
    LET f == w[t].item
    IN  /\ w[t].pc = "open"
        /\ part' = [part EXCEPT ![f] = IF w[t].file_mode = "wb" \/ @ = NoFile THEN 0 ELSE @]
        /\ w' = [w EXCEPT ![t].pc = "stream",
                          ![t].pos = IF w[t].file_mode = "ab" THEN w[t].current_size ELSE 0,
                          ![t].current_size = 0,
                          ![t].file_mode = "wb"]
        /\ UNCHANGED <<mem, c, progress, final, snapshot, proc, calls, restarts>>

\* mutant of should_stop: the pause signal of the item is not looked at
should_stop_without_pause(t) == stop_event \/ Item(t).stop_event

\* the pause/stop check of the stream loop
should_stop(t) == Item(t).pause_event \/ stop_event \/ Item(t).stop_event

\* One chunk of n bytes arrives.  A signal: status paused, on to the pause-out;
\* after the lock section of the pause signal the two stop signals are still
\* to be read.  Else the chunk is written and counted; flushed: the file
\* buffer reaches the disk; periodic: the 5 s progress save is due.
process_chunk(t, n, flushed, periodic) ==
    LET f == w[t].item
    IN  /\ w[t].pc = "stream"
        /\ n \in 1..CHUNK_SIZE
        /\ n <= w[t].body
        /\ IF should_stop(t)
           THEN /\ downloads' = [downloads EXCEPT ![f].status = "paused"]
                /\ w' = [w EXCEPT ![t].pc = IF Item(t).pause_event
                                            THEN "pause_seen" ELSE "pause_out"]
                /\ UNCHANGED <<part, progress>>
           ELSE /\ downloads' = [downloads EXCEPT ![f].downloaded_size = @ + n]
                /\ w' = [w EXCEPT ![t].pos = @ + n, ![t].body = @ - n]
                /\ part' = IF flushed THEN [part EXCEPT ![f] = w[t].pos + n] ELSE part
                /\ progress' = IF periodic
                               THEN [progress EXCEPT ![f] = Item(t).downloaded_size + n]
                               ELSE progress
        /\ UNCHANGED <<order, download_queue, stop_event, worker_thread, c,
                       final, snapshot, proc, calls, restarts>>

\* after the pause signal was seen: the global stop signal, else the stop
\* signal of the item, is read and, when set, the status is written again
process_stop_check(t) ==
    LET f == w[t].item
    IN  /\ w[t].pc = "pause_seen"
        /\ downloads' = IF stop_event \/ Item(t).stop_event
                        THEN [downloads EXCEPT ![f].status = "paused"]
                        ELSE downloads
        /\ w' = [w EXCEPT ![t].pc = "pause_out"]
        /\ UNCHANGED <<order, download_queue, stop_event, worker_thread, c,
                       disk, proc, calls, restarts>>

\* the pause-out: flush, fsync, progress file := f.tell(), return
process_pause_out(t) ==
    LET f == w[t].item
    IN  /\ w[t].pc = "pause_out"
        /\ part' = [part EXCEPT ![f] = w[t].pos]
        /\ downloads' = [downloads EXCEPT ![f].downloaded_size = w[t].pos]
        /\ progress' = [progress EXCEPT ![f] = w[t].pos]
        /\ w' = [w EXCEPT ![t].pc = "after"]
        /\ UNCHANGED <<order, download_queue, stop_event, worker_thread, c,
                       final, snapshot, proc, calls, restarts>>

\* iter_content raises a RequestException in mid-stream: the file is closed
\* on the way out, then the handler
process_stream_fails(t) ==
    LET f == w[t].item
    IN  /\ w[t].pc = "stream"
        /\ w[t].body > 0
        /\ part' = [part EXCEPT ![f] = w[t].pos]
        /\ downloads' = [downloads EXCEPT ![f] = RequestExceptionHandler(@)]
        /\ progress' = [progress EXCEPT ![f] = RequestExceptionProgress(Item(t), @)]
        /\ w' = [w EXCEPT ![t].pc = "after"]
        /\ UNCHANGED <<order, download_queue, stop_event, worker_thread, c,
                       final, snapshot, proc, calls, restarts>>

\* f"File I/O Error: {e}" for the two IOErrors of an attempt
IOErrorMessage(e) ==
    IF e = "Incomplete" THEN "File I/O Error: Incomplete" ELSE "File I/O Error: write"

\* mutant of IOErrorHandler: the branch records the message only
IOErrorHandler_keeps_status(it, e) ==
    [it EXCEPT !.error_message = IOErrorMessage(e)]

\* the except IOError branch, on item it, for the exception e
IOErrorHandler(it, e) ==
    [it EXCEPT !.status = "error", !.error_message = IOErrorMessage(e)]

\* mutant of process_write_fails: the exception is not caught and ends the
\* worker thread
process_write_fails_ends_worker(t) ==
    LET f == w[t].item
    IN  /\ w[t].pc = "stream"
        /\ w[t].body > 0
        /\ part' = [part EXCEPT ![f] = w[t].pos]
        /\ w' = [w EXCEPT ![t] = WorkerLocals("dead")]
        /\ UNCHANGED <<mem, c, progress, final, snapshot, proc, calls, restarts>>

\* f.write raises IOError (disk full): the file is closed on the way out
process_write_fails(t) ==
    LET f == w[t].item
    IN  /\ w[t].pc = "stream"
        /\ w[t].body > 0
        /\ part' = [part EXCEPT ![f] = w[t].pos]
        /\ downloads' = [downloads EXCEPT ![f] = IOErrorHandler(@, "write")]
        /\ w' = [w EXCEPT ![t].pc = "after"]
        /\ UNCHANGED <<order, download_queue, stop_event, worker_thread, c,
                       progress, final, snapshot, proc, calls, restarts>>

\* mutant of StreamEnd: an unknown total_size is left unknown
StreamEnd_keeps_unknown_total(t) ==
    LET f == w[t].item
        final_downloaded_size == w[t].pos
    IN  /\ part' = [part EXCEPT ![f] = final_downloaded_size]
        /\ IF Item(t).total_size > 0 /\ final_downloaded_size # Item(t).total_size
           THEN /\ downloads' = [downloads EXCEPT ![f] =
                       IOErrorHandler([@ EXCEPT !.downloaded_size = final_downloaded_size],
                                      "Incomplete")]
                /\ w' = [w EXCEPT ![t].pc = "after"]
           ELSE /\ downloads' = [downloads EXCEPT
                       ![f].downloaded_size = final_downloaded_size]
                /\ w' = [w EXCEPT ![t].pc = "rename"]
        /\ UNCHANGED <<order, download_queue, stop_event, worker_thread, c,
                       progress, final, snapshot, proc, calls, restarts>>

\* mutant of StreamEnd: the size of the file is not verified
StreamEnd_without_verification(t) ==
    LET f == w[t].item
        final_downloaded_size == w[t].pos
    IN  /\ part' = [part EXCEPT ![f] = final_downloaded_size]
        /\ downloads' = [downloads EXCEPT
               ![f].downloaded_size = final_downloaded_size,
               ![f].total_size = IF @ = 0 THEN final_downloaded_size ELSE @]
        /\ w' = [w EXCEPT ![t].pc = "rename"]
        /\ UNCHANGED <<order, download_queue, stop_event, worker_thread, c,
                       progress, final, snapshot, proc, calls, restarts>>

\* "Download Complete": the stream has ended, the file is closed, its size
\* is taken and verified against total_size
StreamEnd(t) ==
    LET f == w[t].item
        final_downloaded_size == w[t].pos
    IN  /\ part' = [part EXCEPT ![f] = final_downloaded_size]
        /\ IF Item(t).total_size > 0 /\ final_downloaded_size # Item(t).total_size
           THEN /\ downloads' = [downloads EXCEPT ![f] =
                       IOErrorHandler([@ EXCEPT !.downloaded_size = final_downloaded_size],
                                      "Incomplete")]
                /\ w' = [w EXCEPT ![t].pc = "after"]
           ELSE /\ downloads' = [downloads EXCEPT
                       ![f].downloaded_size = final_downloaded_size,
                       ![f].total_size = IF @ = 0 THEN final_downloaded_size ELSE @]
                /\ w' = [w EXCEPT ![t].pc = "rename"]
        /\ UNCHANGED <<order, download_queue, stop_event, worker_thread, c,
                       progress, final, snapshot, proc, calls, restarts>>

\* the body is exhausted
process_stream_ends(t) ==
    /\ w[t].pc = "stream"
    /\ w[t].body = 0
    /\ StreamEnd(t)

\* the server closes the connection before the body is complete and the
\* stream ends without an exception
process_stream_ends_early(t) ==
    /\ w[t].pc = "stream"
    /\ w[t].body > 0
    /\ StreamEnd(t)

\* mutant of process_rename: the partial file is copied, not renamed
process_rename_copies(t) ==
    LET f == w[t].item
    IN  /\ w[t].pc = "rename"
        /\ final' = [final EXCEPT ![f] = part[f]]
        /\ w' = [w EXCEPT ![t].pc = "finish"]
        /\ UNCHANGED <<mem, c, part, progress, snapshot, proc, calls, restarts>>

\* os.rename(item.temp_filename, item.final_filename)
process_rename(t) ==
    LET f == w[t].item
    IN  /\ w[t].pc = "rename"
        /\ final' = [final EXCEPT ![f] = part[f]]
        /\ part' = [part EXCEPT ![f] = NoFile]
        /\ w' = [w EXCEPT ![t].pc = "finish"]
        /\ UNCHANGED <<mem, c, progress, snapshot, proc, calls, restarts>>

\* mutant of process_finish: the progress file is left behind
process_finish_keeps_progress(t) ==
    LET f == w[t].item
    IN  /\ w[t].pc = "finish"
        /\ downloads' = [downloads EXCEPT ![f].status = "completed"]
        /\ w' = [w EXCEPT ![t].pc = "after"]
        /\ UNCHANGED <<order, download_queue, stop_event, worker_thread, c,
                       part, progress, final, snapshot, proc, calls, restarts>>

\* the progress file is removed and the status becomes completed
process_finish(t) ==
    LET f == w[t].item
    IN  /\ w[t].pc = "finish"
        /\ progress' = [progress EXCEPT ![f] = NoFile]
        /\ downloads' = [downloads EXCEPT ![f].status = "completed"]
        /\ w' = [w EXCEPT ![t].pc = "after"]
        /\ UNCHANGED <<order, download_queue, stop_event, worker_thread, c,
                       part, final, snapshot, proc, calls, restarts>>

\* -------------------------------------------------- kill, restart, load_state
\* the index of the record of list that ends up under key k
RecordOf(list, k) ==
    CHOOSE i \in 1..Len(list) :
        /\ list[i].filename = k
        /\ \A j \in (i+1)..Len(list) : list[j].filename # k

\* the keys of the loaded dict, in insertion order
LoadedOrder(list) ==
    LET idx == SelectSeq([ i \in 1..Len(list) |-> i ],
                         LAMBDA i : \A j \in 1..(i-1) : list[j].filename # list[i].filename)
    IN  [ i \in 1..Len(idx) |-> list[idx[i]].filename ]

\* load_state: the dict built from STATE_FILE; empty when the file is missing
\* or does not parse
load_state(snap, prog, partf, fin) ==
    IF snap.kind # "ok" THEN << >>
    ELSE [ k \in { snap.downloads[i].filename : i \in 1..Len(snap.downloads) } |->
             from_dict(snap.downloads[RecordOf(snap.downloads, k)],
                       prog[k], partf[k], fin[k]) ]

\* load_state: the exception that leaves it, "None" when it returns.  The
\* except clause covers IOError and json.JSONDecodeError: a file that is
\* missing or holds no JSON text (kind "corrupt": empty or cut short) is
\* handled; bytes that are no text (kind "undecodable") raise
\* UnicodeDecodeError in f.read, and a JSON text that is not an object
\* (kind "not_object") raises AttributeError at state.get.
load_state_raises(snap) ==
    IF snap.kind = "undecodable" THEN "UnicodeDecodeError"
    ELSE IF snap.kind = "not_object" THEN "AttributeError"
    ELSE "None"

\* the record of the snapshot for filename k, if any
Recorded(snap, k) ==
    snap.kind = "ok" /\ \E i \in 1..Len(snap.downloads) : snap.downloads[i].filename = k

\* What a kill leaves on disk.  tear = "none": the files as they are.
\* tear = "snapshot": the kill falls inside a json.dump (the file was opened
\* for writing and is cut short).  tear = "progress": it falls between the
\* open(progress_file, 'w') and the write of a progress save of thread t.
Tearable(tear, t) ==
    \/ tear = "none"
    \/ tear = "snapshot" /\ (c.pc = "save_write" \/ w[t].pc = "save_write")
    \/ tear = "progress" /\ \/ w[t].pc \in {"pause_out", "stream"}
                            \/ w[t].pc = "request" /\ Item(t).downloaded_size > 0

\* The process is killed and started again: DownloadManager() runs
\* load_state, every record is reconciled with the files (from_dict).
restart(tear, t, seed) ==
    LET snap == IF tear = "snapshot" THEN [kind |-> "corrupt", downloads |-> <<>>]
                ELSE snapshot
        prog == IF tear = "progress" THEN [progress EXCEPT ![w[t].item] = Garbage]
                ELSE progress
        loaded == load_state(snap, prog, part, final)
    IN  /\ restarts > 0
        /\ Tearable(tear, t)
        /\ restarts' = restarts - 1
        /\ hashseed' = seed
        /\ leftover' = { k \in DOMAIN final :
                            /\ final[k] # NoFile
                            /\ ~(k \in DOMAIN loaded /\ loaded[k].status = "completed") }
        /\ snapshot' = snap
        /\ downloads' = loaded
        /\ order' = IF snap.kind = "ok" THEN LoadedOrder(snap.downloads) ELSE <<>>
        /\ part' = [ k \in DOMAIN part |->
                       IF Recorded(snap, k)
                       THEN from_dict_part(snap.downloads[RecordOf(snap.downloads, k)],
                                           prog[k], part[k])
                       ELSE part[k] ]
        /\ progress' = [ k \in DOMAIN progress |->
                           IF Recorded(snap, k)
                           THEN from_dict_progress(snap.downloads[RecordOf(snap.downloads, k)],
                                                   prog[k])
                           ELSE prog[k] ]
        /\ download_queue' = <<>>
        /\ stop_event' = FALSE
        /\ worker_thread' = NoThread
        /\ w' = [ u \in Threads |-> WorkerLocals("dead") ]
        /\ c' = Returned("__init__", load_state_raises(snap))
        /\ UNCHANGED <<final, calls>>

\* ------------------------------------------------------------ the program
Caller ==
    \/ \E url \in Urls : add_download(url)
    \/ add_put
    \/ \E filename \in Names : pause_download(filename)
    \/ \E filename \in Names : resume_download(filename)
    \/ pause_all
    \/ resume_all
    \/ resume_all_put
    \/ start
    \/ start_put
    \/ start_spawn
    \/ \E graceful \in BOOLEAN : stop(graceful)
    \/ stop_lock
    \/ stop_join
    \/ save_state_lock
    \/ save_state_write

Worker(t) ==
    \/ worker_loop(t)
    \/ worker_get(t)
    \/ worker_dispatch(t)
    \/ process_begin(t)
    \/ process_resume(t)
    \/ \E r \in Responses(w[t].range) : process_request(t, r)
    \/ process_request_fails(t)
    \/ process_open(t)
    \/ \E n \in 1..CHUNK_SIZE, flushed \in BOOLEAN, periodic \in BOOLEAN :
            process_chunk(t, n, flushed, periodic)
    \/ process_stop_check(t)
    \/ process_pause_out(t)
    \/ process_stream_fails(t)
    \/ process_write_fails(t)
    \/ process_stream_ends(t)
    \/ process_stream_ends_early(t)
    \/ process_rename(t)
    \/ process_finish(t)
    \/ worker_after(t)
    \/ worker_save_write(t)

Next ==
    \/ Caller
    \/ \E t \in Threads : Worker(t)
    \/ \E tear \in {"none", "snapshot", "progress"}, t \in Threads :
            restart(tear, t, hashseed)

Spec == Init /\ [][Next]_vars

\* One item, no kill: the caller adds one URL and pauses, resumes, stops and
\* starts at will; the server answers as in Spec.  Every behaviour of
\* SpecRetry is a behaviour of the program; it reaches the longer call
\* sequences (a retry after stop() and start()) that Spec's call budget cuts.
RetryUrl == [host |-> "h1", base |-> "a"]

InitRetry == InitWith(RetryCalls, 0)

NextRetry ==
    \/ add_download(RetryUrl)
    \/ add_put
    \/ pause_download(_generate_filename(RetryUrl, hashseed))
    \/ resume_download(_generate_filename(RetryUrl, hashseed))
    \/ start
    \/ start_put
    \/ start_spawn
    \/ \E graceful \in BOOLEAN : stop(graceful)
    \/ stop_lock
    \/ stop_join
    \/ save_state_lock
    \/ save_state_write
    \/ \E t \in Threads : Worker(t)

SpecRetry == InitRetry /\ [][NextRetry]_vars

\* A well-behaved run: the caller only adds URLs and starts the manager, no
\* signal is ever set, nothing fails, the process is not killed, and the
\* server answers every request with 200, a Content-Length of ResourceSize
\* and exactly that many bytes.  A thread that can take a step takes one
\* sooner or later: the worker loop polls its queue with a timeout, and the
\* caller thread finishes the call it is in.
IdealResponses(offset) ==
    { r \in Responses(offset) : r.code = 200 /\ r.length = ResourceSize }

WorkerIdeal(t) ==
    \/ worker_loop(t)
    \/ worker_get(t)
    \/ worker_dispatch(t)
    \/ process_begin(t)
    \/ process_resume(t)
    \/ \E r \in IdealResponses(w[t].range) : process_request(t, r)
    \/ process_open(t)
    \/ \E n \in 1..CHUNK_SIZE, flushed \in BOOLEAN, periodic \in BOOLEAN :
            process_chunk(t, n, flushed, periodic)
    \/ process_stream_ends(t)
    \/ process_rename(t)
    \/ process_finish(t)
    \/ worker_after(t)
    \/ worker_save_write(t)

CallerIdealGoesOn ==
    \/ add_put
    \/ start_put
    \/ start_spawn
    \/ save_state_lock
    \/ save_state_write

InitIdeal == InitWith(IdealCalls, 0)

NextIdeal ==
    \/ \E url \in Urls : add_download(url)
    \/ start
    \/ CallerIdealGoesOn
    \/ \E t \in Threads : WorkerIdeal(t)

SpecIdeal ==
    /\ InitIdeal
    /\ [][NextIdeal]_vars
    /\ WF_vars(CallerIdealGoesOn)
    /\ \A t \in Threads : WF_vars(WorkerIdeal(t))

\* A run without failures: one URL; the caller adds it, starts the manager,
\* pauses and resumes at will; the process is not killed, no request, write
\* or stream fails, and the server sends complete bodies.  To a request with
\* a Range header it answers 206 with the rest (it honours the range) or 200
\* with the full body (it ignores the range).  A thread that can take a step
\* takes one sooner or later.
WorkerResume(t) ==
    \/ worker_loop(t)
    \/ worker_get(t)
    \/ worker_dispatch(t)
    \/ process_begin(t)
    \/ process_resume(t)
    \/ \E r \in Responses(w[t].range) : process_request(t, r)
    \/ process_open(t)
    \/ \E n \in 1..CHUNK_SIZE, flushed \in BOOLEAN, periodic \in BOOLEAN :
            process_chunk(t, n, flushed, periodic)
    \/ process_stop_check(t)
    \/ process_pause_out(t)
    \/ process_stream_ends(t)
    \/ process_rename(t)
    \/ process_finish(t)
    \/ worker_after(t)
    \/ worker_save_write(t)

CallerResumeGoesOn ==
    \/ add_put
    \/ resume_all_put
    \/ start_put
    \/ start_spawn
    \/ save_state_lock
    \/ save_state_write

InitResume == InitWith(ResumeCalls, 0)

NextResume ==
    \/ add_download(RetryUrl)
    \/ start
    \/ pause_download(_generate_filename(RetryUrl, hashseed))
    \/ resume_download(_generate_filename(RetryUrl, hashseed))
    \/ pause_all
    \/ resume_all
    \/ CallerResumeGoesOn
    \/ \E t \in Threads : WorkerResume(t)

SpecResume ==
    /\ InitResume
    /\ [][NextResume]_vars
    /\ WF_vars(CallerResumeGoesOn)
    /\ \A t \in Threads : WF_vars(WorkerResume(t))

\* A well-behaved run with a kill: as SpecIdeal, and the process can be
\* killed at any point and started again (load_state), after which the
\* caller goes on adding URLs and starting the manager.
InitRecover == InitWith(RecoverCalls, MaxRestarts)

NextRecover ==
    \/ \E url \in Urls : add_download(url)
    \/ start
    \/ CallerIdealGoesOn
    \/ \E t \in Threads : WorkerIdeal(t)
    \/ \E tear \in {"none", "snapshot", "progress"}, t \in Threads :
            restart(tear, t, hashseed)

SpecRecover ==
    /\ InitRecover
    /\ [][NextRecover]_vars
    /\ WF_vars(CallerIdealGoesOn)
    /\ \A t \in Threads : WF_vars(WorkerIdeal(t))

\* The start of a process in a directory left by an earlier run: the
\* snapshot holds one record with any field values a JSON file can hold for
\* it (a status that is not valid included), and the record's progress,
\* partial and final file are each absent or present with any content.
\* The only step is the construction of the manager (load_state).
LoadRecords ==
    { [ url |-> RetryUrl,
        filename |-> _generate_filename(RetryUrl, 0),
        total_size |-> ts,
        downloaded_size |-> ds,
        status |-> st,
        error_message |-> msg ]
      : ts \in {0, ResourceSize}, ds \in 0..ResourceSize,
        st \in valid_statuses \cup {"unknown"},
        msg \in {NoMsg, "RequestException"} }

InitLoad ==
    /\ downloads = << >>
    /\ order = << >>
    /\ download_queue = << >>
    /\ stop_event = FALSE
    /\ worker_thread = NoThread
    /\ w = [ t \in Threads |-> WorkerLocals("dead") ]
    /\ c = Returned("-", "None")
    /\ \E rec \in LoadRecords : snapshot = [kind |-> "ok", downloads |-> <<rec>>]
    /\ \E s \in {NoFile} \cup 0..ResourceSize :
          part = [ n \in Names |-> IF n = _generate_filename(RetryUrl, 0) THEN s ELSE NoFile ]
    /\ \E s \in {NoFile, Garbage} \cup 0..ResourceSize :
          progress = [ n \in Names |-> IF n = _generate_filename(RetryUrl, 0) THEN s ELSE NoFile ]
    /\ \E s \in {NoFile, ResourceSize} :
          final = [ n \in Names |-> IF n = _generate_filename(RetryUrl, 0) THEN s ELSE NoFile ]
    /\ hashseed = 0
    /\ leftover = {}
    /\ calls = 0
    /\ restarts = MaxRestarts

NextLoad ==
    \E tear \in {"none", "snapshot", "progress"}, t \in Threads :
        restart(tear, t, hashseed)

SpecLoad == InitLoad /\ [][NextLoad]_vars

\* A run with failures and without signals: the caller only adds URLs and
\* starts the manager, the process is not killed; requests, streams and
\* writes fail at will and the server closes connections early.  A thread
\* that can take a step takes one sooner or later.
WorkerFail(t) ==
    \/ worker_loop(t)
    \/ worker_get(t)
    \/ worker_dispatch(t)
    \/ process_begin(t)
    \/ process_resume(t)
    \/ \E r \in Responses(w[t].range) : process_request(t, r)
    \/ process_request_fails(t)
    \/ process_open(t)
    \/ \E n \in 1..CHUNK_SIZE, flushed \in BOOLEAN, periodic \in BOOLEAN :
            process_chunk(t, n, flushed, periodic)
    \/ process_stream_fails(t)
    \/ process_write_fails(t)
    \/ process_stream_ends(t)
    \/ process_stream_ends_early(t)
    \/ process_rename(t)
    \/ process_finish(t)
    \/ worker_after(t)
    \/ worker_save_write(t)

InitFail == InitWith(FailCalls, 0)

NextFail ==
    \/ \E url \in Urls : add_download(url)
    \/ start
    \/ CallerIdealGoesOn
    \/ \E t \in Threads : WorkerFail(t)

SpecFail ==
    /\ InitFail
    /\ [][NextFail]_vars
    /\ WF_vars(CallerIdealGoesOn)
    /\ \A t \in Threads : WF_vars(WorkerFail(t))

\* Filenames across process runs: the caller enters a URL whose path has a
\* last segment and one whose path has none (its filename is made from
\* hash(url)); it adds URLs and starts the manager, nothing fails, and the
\* process can be killed and started again, the new process running with
\* any hash seed.
NameUrls ==
    { [host |-> "h1", base |-> "a"],
      [host |-> "h1", base |-> ""] }

\* PYTHONHASHSEED of a process: str hashes are salted per process
Seeds == {0, 1}

AllNames == { _generate_filename(u, seed) : u \in NameUrls, seed \in Seeds }

InitNames ==
    /\ downloads = << >>
    /\ order = << >>
    /\ download_queue = << >>
    /\ stop_event = FALSE
    /\ worker_thread = NoThread
    /\ w = [ t \in Threads |-> WorkerLocals("dead") ]
    /\ c = Returned("__init__", "None")
    /\ part = [ n \in AllNames |-> NoFile ]
    /\ progress = [ n \in AllNames |-> NoFile ]
    /\ final = [ n \in AllNames |-> NoFile ]
    /\ snapshot = [kind |-> "missing", downloads |-> <<>>]
    /\ hashseed \in Seeds
    /\ leftover = {}
    /\ calls = NameCalls
    /\ restarts = MaxRestarts

NextNames ==
    \/ \E url \in NameUrls : add_download(url)
    \/ start
    \/ CallerIdealGoesOn
    \/ \E t \in Threads : WorkerIdeal(t)
    \/ \E tear \in {"none", "snapshot", "progress"}, t \in Threads, seed \in Seeds :
            restart(tear, t, seed)

SpecNames == InitNames /\ [][NextNames]_vars

\* The start of a process in a directory whose snapshot cannot be loaded:
\* the file is missing, holds no JSON text, holds bytes that are no text, or
\* holds a JSON text that is not an object; files of earlier downloads are
\* absent or present with any content.  The only step is the construction
\* of the manager (load_state).
UnloadableKinds == {"missing", "corrupt", "undecodable", "not_object"}

InitConstruct ==
    /\ downloads = << >>
    /\ order = << >>
    /\ download_queue = << >>
    /\ stop_event = FALSE
    /\ worker_thread = NoThread
    /\ w = [ t \in Threads |-> WorkerLocals("dead") ]
    /\ c = Returned("-", "None")
    /\ \E kind \in UnloadableKinds : snapshot = [kind |-> kind, downloads |-> <<>>]
    /\ part \in [ Names -> {NoFile} \cup 0..ResourceSize ]
    /\ progress \in [ Names -> {NoFile, Garbage, ResourceSize} ]
    /\ final \in [ Names -> {NoFile, ResourceSize} ]
    /\ hashseed = 0
    /\ leftover = {}
    /\ calls = 0
    /\ restarts = MaxRestarts

NextConstruct ==
    \E tear \in {"none", "snapshot", "progress"}, t \in Threads :
        restart(tear, t, hashseed)

SpecConstruct == InitConstruct /\ [][NextConstruct]_vars

\* Every operation of the manager against a worker that may stall: one URL;
\* the caller adds it and starts, stops, pauses and resumes at will, the
\* server answers and fails as in Spec, the process is not killed.  The
\* caller thread, once inside a call, goes on to the next statement of the
\* call sooner or later: a lock section of the worker is a few assignments
\* and ends, Queue.put on the unbounded queue does not wait, and join is
\* given a timeout.  Nothing is assumed about the pace of the worker.
CallerGoesOn ==
    \/ add_put
    \/ resume_all_put
    \/ start_put
    \/ start_spawn
    \/ stop_lock
    \/ stop_join
    \/ save_state_lock
    \/ save_state_write

InitCalls == InitWith(CallCalls, 0)

NextCalls ==
    \/ add_download(RetryUrl)
    \/ pause_download(_generate_filename(RetryUrl, hashseed))
    \/ resume_download(_generate_filename(RetryUrl, hashseed))
    \/ pause_all
    \/ resume_all
    \/ start
    \/ \E graceful \in BOOLEAN : stop(graceful)
    \/ CallerGoesOn
    \/ \E t \in Threads : Worker(t)

SpecCalls ==
    /\ InitCalls
    /\ [][NextCalls]_vars
    /\ WF_vars(CallerGoesOn)

\* ------------------------------------------------------------------ claims
TypeOK ==
    /\ DOMAIN downloads \subseteq Names
    /\ \A k \in DOMAIN downloads : downloads[k].status \in valid_statuses

\* C1: for every item, at every instant, total_size > 0 implies
\* downloaded_size <= total_size.
C1_DownloadedWithinTotal ==
    \A k \in DOMAIN downloads :
        downloads[k].total_size > 0 =>
            downloads[k].downloaded_size <= downloads[k].total_size

\* the final file of k exists, its partial file and its progress file do not
Finalised(k) == final[k] # NoFile /\ part[k] = NoFile /\ progress[k] = NoFile

\* C2 as stated: in every state and for every item, status completed if and
\* only if the final file exists and the partial and progress files are absent.
C2_CompletedIffFinalised ==
    \A k \in DOMAIN downloads : downloads[k].status = "completed" <=> Finalised(k)

\* C2 as amended: a completed item has its final file and neither partial nor
\* progress file; and an item whose files are in that state is completed,
\* unless a worker stands between the rename and the status write of its
\* attempt, or the final file was left by an earlier process run whose
\* completion the loaded collection does not record.
C2_CompletedFinalised ==
    \A k \in DOMAIN downloads :
        /\ downloads[k].status = "completed" => Finalised(k)
        /\ Finalised(k) /\ downloads[k].status # "completed" =>
              \/ \E t \in Threads : w[t].item = k /\ w[t].pc = "finish"
              \/ k \in leftover

\* an attempt has completed an item in this process run
C2_Witness ==
    \E k \in DOMAIN downloads :
        /\ downloads[k].status = "completed"
        /\ Finalised(k)
        /\ k \notin leftover
        /\ \E t \in Threads : w[t].item = k /\ w[t].pc = "after"

\* C3: when the request of an attempt is about to be issued: a progress file
\* that held N with a partial file of exactly N bytes means the request asks
\* for the bytes from N on and the file is appended to; any mismatch (and an
\* unreadable progress file) means offset 0 with both files removed.
C3_ResumeCorrectness ==
    \A t \in Threads :
        w[t].pc = "request" /\ w[t].saved_size # NoFile =>
            IF w[t].saved_size # Garbage /\ w[t].saved_size = w[t].actual_part_size
            THEN /\ w[t].current_size = w[t].saved_size
                 /\ w[t].saved_size > 0 =>
                        w[t].range = w[t].saved_size /\ w[t].file_mode = "ab"
            ELSE /\ w[t].current_size = 0
                 /\ w[t].range = NoFile
                 /\ part[w[t].item] = NoFile
                 /\ progress[w[t].item] = NoFile

\* the places of a worker thread inside _process_download after the status
\* was set to downloading and before the attempt's last status write
InAttempt == {"resume", "request", "open", "stream", "rename", "finish"}

\* C4: an item has status downloading only while a live worker thread is
\* inside an attempt on it: never after the attempt returned, never while
\* no worker runs, never right after a load.
C4_DownloadingOnlyInAttempt ==
    \A k \in DOMAIN downloads :
        downloads[k].status = "downloading" =>
            \E t \in Threads : is_alive(t) /\ w[t].item = k /\ w[t].pc \in InAttempt

\* a record saved as downloading was loaded after a kill, with its progress
\* file present, as paused
C4_Witness ==
    /\ restarts < MaxRestarts
    /\ c.op = "__init__"
    /\ \E i \in 1..Len(snapshot.downloads) :
          /\ snapshot.downloads[i].status = "downloading"
          /\ downloads[snapshot.downloads[i].filename].status = "paused"

\* C5: at most one worker thread is alive and at most one item is downloading.
C5_OneWorkerOneAttempt ==
    /\ Cardinality({ t \in Threads : is_alive(t) }) <= 1
    /\ Cardinality({ k \in DOMAIN downloads : downloads[k].status = "downloading" }) <= 1

\* start() was called while the worker was on an attempt, a second item waits
C5_Witness ==
    /\ c.op = "start" /\ c.pc = "idle"
    /\ \E t \in Threads : is_alive(t) /\ w[t].pc \in InAttempt
    /\ download_queue # <<>>

\* C6: pause_download on an item that is not downloading (or unknown) and
\* resume_download on an item that is not paused (or unknown) return False
\* at once and change no item, no signal, not the queue, no file and not
\* the snapshot.
C6_NoOpFrame ==
    [][ \A f \in Names :
          ( \/ pause_download(f)
               /\ ~(f \in DOMAIN downloads /\ downloads[f].status = "downloading")
            \/ resume_download(f)
               /\ ~(f \in DOMAIN downloads /\ downloads[f].status = "paused") )
          => /\ c'.pc = "idle" /\ c'.ret = "False"
             /\ UNCHANGED <<downloads, order, download_queue, stop_event,
                            worker_thread, w, part, progress, final, snapshot>>
      ]_vars

\* a resume_download of a known item that was not paused has returned False
C6_Witness ==
    /\ c.pc = "idle" /\ c.op = "resume_download" /\ c.ret = "False"
    /\ \E k \in DOMAIN downloads : downloads[k].status = "downloading"

\* C7: add_download of a URL whose filename is in the collection returns
\* False and changes neither collection, queue nor snapshot; otherwise it
\* inserts exactly one new queued item under its filename, puts it on the
\* queue exactly once and has written a snapshot holding it when it returns
\* True.  Every key of the collection is the filename of its item.
C7_AddDownload ==
    /\ [](\A k \in DOMAIN downloads : downloads[k].filename = k)
    /\ [][ \A url \in Urls :
              add_download(url) =>
                LET f == _generate_filename(url, hashseed)
                IN  IF f \in DOMAIN downloads
                    THEN /\ c'.pc = "idle" /\ c'.ret = "False"
                         /\ UNCHANGED <<downloads, order, download_queue, snapshot>>
                    ELSE /\ DOMAIN downloads' = DOMAIN downloads \cup {f}
                         /\ \A k \in DOMAIN downloads : downloads'[k] = downloads[k]
                         /\ downloads'[f].status = "queued"
                         /\ downloads'[f].url = url
                         /\ c'.pc = "add_put" /\ c'.arg = f
                         /\ UNCHANGED download_queue
       ]_vars
    /\ [][ c.op = "add_download" /\ c.pc # "idle" /\ c' # c /\ c'.op = "add_download" =>
              /\ c.pc = "add_put" => download_queue' = Append(download_queue, c.arg)
              /\ c.pc # "add_put" => UNCHANGED download_queue
              /\ UNCHANGED <<downloads, order>>
              /\ c'.pc = "idle" =>
                    /\ c'.ret = "True"
                    /\ Recorded(snapshot', c.arg)
       ]_vars

\* add_download of a second URL with the filename of a known item has
\* returned False
C7_Witness ==
    /\ c.pc = "idle" /\ c.op = "add_download" /\ c.ret = "False"
    /\ \E k \in DOMAIN downloads :
          \E url \in Urls : _generate_filename(url, hashseed) = k /\ downloads[k].url # url

\* C8: the pause-out of an attempt that has k bytes in the partial file
\* returns with status paused, the progress file holding k, the partial
\* file k bytes long and downloaded_size = k.
C8_PauseOut ==
    [][ \A t \in Threads :
          process_pause_out(t) =>
            LET f == w[t].item
            IN  /\ downloads'[f].status = "paused"
                /\ progress'[f] = w[t].pos
                /\ part'[f] = w[t].pos
                /\ downloads'[f].downloaded_size = w[t].pos
      ]_vars

\* C9: a RequestException that ends an attempt leaving k > 0 bytes in the
\* partial file leaves status error with a message and the progress file
\* holding k.
C9_NetworkFailureCheckpoint ==
    [][ \A t \in Threads :
          (process_stream_fails(t) \/ process_request_fails(t)) /\ part'[w[t].item] > 0 =>
            LET f == w[t].item
            IN  /\ downloads'[f].status = "error"
                /\ downloads'[f].error_message # NoMsg
                /\ progress'[f] = part'[f]
      ]_vars

\* C10: in a well-behaved run every item starts queued, its status only
\* ever moves queued -> downloading -> completed, and once it is in the
\* collection of a manager whose worker runs it ends completed with a final
\* file of ResourceSize bytes and neither partial nor progress file.
C10_ScenarioA ==
    /\ [][ \A k \in DOMAIN downloads' :
              IF k \in DOMAIN downloads
              THEN \/ downloads'[k].status = downloads[k].status
                   \/ downloads[k].status = "queued" /\ downloads'[k].status = "downloading"
                   \/ downloads[k].status = "downloading" /\ downloads'[k].status = "completed"
              ELSE downloads'[k].status = "queued"
       ]_vars
    /\ \A k \in Names :
          [](k \in DOMAIN downloads /\ WorkerRunning =>
                <>(/\ k \in DOMAIN downloads
                   /\ downloads[k].status = "completed"
                   /\ final[k] = ResourceSize
                   /\ part[k] = NoFile
                   /\ progress[k] = NoFile))

\* two items were downloaded one after the other
C10_Witness ==
    /\ WorkerRunning
    /\ Cardinality(DOMAIN downloads) = 2
    /\ \A k \in DOMAIN downloads :
          downloads[k].status = "completed" /\ final[k] = ResourceSize

\* item k was paused with k bytes on disk and in its progress file, was
\* resumed, and waits in the queue of a running worker
Resumed(k) ==
    /\ k \in DOMAIN downloads
    /\ downloads[k].status = "queued"
    /\ progress[k] > 0 /\ part[k] = progress[k]
    /\ k \in Range(download_queue)
    /\ WorkerRunning

\* C11: the attempt on an item paused at k > 0 bytes (progress file k, partial
\* file k bytes) asks for the bytes from k on; when the server answers 206
\* the partial file is kept, opened for appending at k, and exactly the
\* ResourceSize - k bytes of the body are added to it; and a resumed item ends
\* completed with a final file of ResourceSize bytes, unless it is paused
\* once more.
C11_ResumeHonoured ==
    /\ [][ \A t \in Threads :
              process_resume(t) /\ progress[w[t].item] > 0
                                /\ part[w[t].item] = progress[w[t].item] =>
                  /\ w'[t].range = progress[w[t].item]
                  /\ w'[t].current_size = progress[w[t].item]
                  /\ w'[t].file_mode = "ab"
                  /\ UNCHANGED <<part, progress>>
       ]_vars
    /\ [][ \A t \in Threads :
              w[t].pc = "request" /\ w'[t].pc = "open" /\ w'[t].is_resuming =>
                  /\ w'[t].body = ResourceSize - w[t].range
                  /\ w'[t].file_mode = "ab"
                  /\ w'[t].current_size = w[t].range
                  /\ downloads'[w[t].item].downloaded_size = w[t].range
                  /\ downloads'[w[t].item].total_size \in {0, ResourceSize}
                  /\ UNCHANGED <<part, progress>>
       ]_vars
    /\ [][ \A t \in Threads :
              process_open(t) /\ w[t].is_resuming =>
                  /\ UNCHANGED part
                  /\ w'[t].pos = part[w[t].item]
       ]_vars
    /\ [][ \A t \in Threads :
              process_rename(t) /\ w[t].is_resuming =>
                  final'[w[t].item] = ResourceSize
       ]_vars
    /\ \A k \in Names :
          [](Resumed(k) =>
                <>(/\ k \in DOMAIN downloads
                   /\ \/ downloads[k].pause_event
                      \/ /\ downloads[k].status = "completed"
                         /\ final[k] = ResourceSize
                         /\ part[k] = NoFile
                         /\ progress[k] = NoFile))

\* an attempt that the server answered with 206 has completed its item
C11_Witness ==
    \E t \in Threads :
        /\ w[t].pc = "after" /\ w[t].is_resuming
        /\ downloads[w[t].item].status = "completed"
        /\ final[w[t].item] = ResourceSize

\* C12: when the server answers a range request of an attempt with the full
\* body (200), the partial file and the progress file are removed, the
\* counter is reset to 0, the file is opened in overwrite mode and written
\* from byte 0; an attempt that ends without a pause ends completed with a
\* final file of ResourceSize bytes.
C12_RangeIgnored ==
    /\ [][ \A t \in Threads :
              /\ w[t].pc = "request" /\ w'[t].pc = "open"
              /\ w[t].current_size > 0 /\ ~w'[t].is_resuming
              => /\ part'[w[t].item] = NoFile
                 /\ progress'[w[t].item] = NoFile
                 /\ downloads'[w[t].item].downloaded_size = 0
                 /\ w'[t].current_size = 0
                 /\ w'[t].file_mode = "wb"
                 /\ w'[t].body = ResourceSize
       ]_vars
    /\ [][ \A t \in Threads :
              process_open(t) /\ w[t].file_mode = "wb" =>
                  part'[w[t].item] = 0 /\ w'[t].pos = 0
       ]_vars
    /\ [][ \A t \in Threads :
              w[t].pc \in InAttempt /\ w'[t].pc = "after" =>
                  /\ downloads'[w[t].item].status = "completed"
                  /\ downloads'[w[t].item].downloaded_size = ResourceSize
                  /\ final'[w[t].item] = ResourceSize
                  /\ part'[w[t].item] = NoFile
                  /\ progress'[w[t].item] = NoFile
       ]_vars

\* an item paused at k > 0 bytes and resumed (the snapshot of the resume
\* records it queued at k) was completed by an attempt whose range request
\* the server answered with the full body
C12_Witness ==
    \E t \in Threads :
        /\ w[t].pc = "after" /\ ~w[t].is_resuming
        /\ downloads[w[t].item].status = "completed"
        /\ final[w[t].item] = ResourceSize
        /\ snapshot.kind = "ok"
        /\ \E i \in 1..Len(snapshot.downloads) :
              /\ snapshot.downloads[i].filename = w[t].item
              /\ snapshot.downloads[i].status = "queued"
              /\ snapshot.downloads[i].downloaded_size > 0

\* item k, paused or in error before the step, is queued with both signals
\* clear after it
Requeued(k) ==
    /\ downloads'[k].status = "queued"
    /\ ~downloads'[k].pause_event
    /\ ~downloads'[k].stop_event

\* C13: resume_download(f) on an item that is paused or in error, and
\* resume_all() and start() for every item that is paused or in error, set
\* the status to queued, clear both signals and put the item on the queue.
C13_RequeuePausedAndError ==
    /\ [][ \A f \in Names :
              /\ resume_download(f)
              /\ f \in DOMAIN downloads
              /\ downloads[f].status \in {"paused", "error"}
              => /\ Requeued(f)
                 /\ download_queue' = Append(download_queue, f)
       ]_vars
    /\ [][ (resume_all \/ start) =>
              \A k \in DOMAIN downloads :
                  downloads[k].status \in {"paused", "error"} =>
                      /\ Requeued(k)
                      /\ k \in Range(c'.items)
       ]_vars
    /\ [][ (resume_all_put \/ start_put) =>
              download_queue' = download_queue \o c.items
       ]_vars

C15_StartPostcondition ==
    /\ [][ start =>
              \A k \in DOMAIN downloads :
                  downloads[k].status \in {"paused", "error"} =>
                      /\ Requeued(k)
                      /\ k \in Range(c'.items)
       ]_vars
    /\ [][ start_put => download_queue' = download_queue \o c.items ]_vars
    /\ [][ /\ c.op = "start" /\ c.pc \in {"save_lock", "save_write", "spawn"}
           /\ restarts' = restarts
           => UNCHANGED <<downloads, download_queue>>
       ]_vars
    /\ [][ (start \/ start_spawn) /\ c'.pc = "idle" =>
              ~stop_event' /\ WorkerRunning'
       ]_vars

\* the parts of C16 that hold as stated: stop_lock sets the stop signal of
\* every item that is downloading; every return of stop() is the end of a
\* save_state that wrote the snapshot; after a join that found the worker
\* ended nothing changes an item or a file before stop() returns.
StopSignalsAndSaves ==
    /\ [][ stop_lock =>
              \A k \in DOMAIN downloads :
                  downloads[k].status = "downloading" => downloads'[k].stop_event
       ]_vars
    /\ [][ c.op = "stop" /\ c.pc # "idle" /\ c'.pc = "idle" /\ restarts' = restarts =>
              /\ c.pc = "save_write"
              /\ snapshot' = [kind |-> "ok", downloads |-> c.state]
       ]_vars
    /\ [][ /\ c.op = "stop" /\ c.pc \in {"save_lock", "save_write"}
           /\ ~WorkerRunning /\ restarts' = restarts
           => UNCHANGED <<downloads, part, progress, final>>
       ]_vars

C17_RecoveryLiveness ==
    \A k \in Names :
        [](/\ restarts < MaxRestarts
           /\ WorkerRunning
           /\ k \in DOMAIN downloads
           /\ downloads[k].status \in {"queued", "paused", "error"}
           => <>(\E t \in Threads : w[t].item = k /\ w[t].pc \in InAttempt))

\* the six persisted fields of two items are equal
SameRecord(a, b) ==
    /\ a.url = b.url
    /\ a.filename = b.filename
    /\ a.total_size = b.total_size
    /\ a.downloaded_size = b.downloaded_size
    /\ a.status = b.status
    /\ a.error_message = b.error_message

\* the files of item k agree with its recorded progress
Consistent(k) ==
    /\ downloads[k].status \in {"paused", "error"} =>
            progress[k] = downloads[k].downloaded_size
    /\ downloads[k].status = "completed" => final[k] # NoFile

\* the snapshot on disk is the serialisation of the collection, the files
\* agree with it, and the process is killed and loads it
RoundTrip ==
    /\ restart("none", 1, hashseed)
    /\ snapshot.kind = "ok"
    /\ snapshot.downloads = StateList
    /\ \A k \in DOMAIN downloads : Consistent(k)

\* C18 as stated: loading the serialisation of a collection whose files are
\* consistent with it yields the same keys and, for every item, the same
\* url, filename, total_size, downloaded_size, status and error_message.
C18_RoundTripAsStated ==
    [][ RoundTrip =>
          /\ DOMAIN downloads' = DOMAIN downloads
          /\ \A k \in DOMAIN downloads : SameRecord(downloads'[k], downloads[k])
      ]_vars

\* C18 as amended: the same, for every item that is not downloading; an
\* item that is downloading is loaded as paused with the integer of its
\* progress file as downloaded_size, or as queued with downloaded_size 0
\* when it has no readable progress file, its other fields unchanged.
C18_RoundTrip ==
    [][ RoundTrip =>
          /\ DOMAIN downloads' = DOMAIN downloads
          /\ order' = order
          /\ \A k \in DOMAIN downloads :
                IF downloads[k].status # "downloading"
                THEN SameRecord(downloads'[k], downloads[k])
                ELSE /\ SameRecord(downloads'[k],
                           [downloads[k] EXCEPT
                               !.status = IF progress[k] >= 0 THEN "paused" ELSE "queued",
                               !.downloaded_size = IF progress[k] >= 0 THEN progress[k] ELSE 0])
      ]_vars

\* a collection holding an item in error at k > 0 bytes, with its message,
\* was saved, and was loaded after a kill as it was
C18_Witness ==
    /\ restarts < MaxRestarts
    /\ c.op = "__init__"
    /\ snapshot.kind = "ok"
    /\ \E k \in DOMAIN downloads :
          /\ downloads[k].status = "error"
          /\ downloads[k].error_message # NoMsg
          /\ downloads[k].downloaded_size > 0
          /\ progress[k] = downloads[k].downloaded_size
          /\ SameRecord(downloads[k], snapshot.downloads[RecordOf(snapshot.downloads, k)])

\* the process starts and loads a snapshot whose record i, the one that ends
\* up under its filename, has status paused, error or downloading
LoadsUnfinished(i) ==
    /\ restart("none", 1, hashseed)
    /\ snapshot.kind = "ok"
    /\ i \in 1..Len(snapshot.downloads)
    /\ i = RecordOf(snapshot.downloads, snapshot.downloads[i].filename)
    /\ snapshot.downloads[i].status \in {"paused", "error", "downloading"}

\* C19: a record with status paused, error or downloading whose progress
\* file is absent or does not parse is loaded as queued with
\* downloaded_size 0, and its partial file is gone after the load.
C19_LoadWithoutCheckpoint ==
    [][ \A i \in 1..Len(snapshot.downloads) :
          LET k == snapshot.downloads[i].filename
          IN  LoadsUnfinished(i) /\ progress[k] \in {NoFile, Garbage} =>
                /\ k \in DOMAIN downloads'
                /\ downloads'[k].status = "queued"
                /\ downloads'[k].downloaded_size = 0
                /\ part'[k] = NoFile
      ]_vars

\* a record saved as paused at k > 0 bytes was loaded as queued at 0 with
\* no progress file and no partial file
C19_Witness ==
    /\ restarts < MaxRestarts
    /\ \E k \in DOMAIN downloads :
          /\ downloads[k].status = "queued"
          /\ downloads[k].downloaded_size = 0
          /\ part[k] = NoFile /\ progress[k] = NoFile
          /\ Recorded(snapshot, k)
          /\ snapshot.downloads[RecordOf(snapshot.downloads, k)].status = "paused"
          /\ snapshot.downloads[RecordOf(snapshot.downloads, k)].downloaded_size > 0

\* C20: a record with status paused, error or downloading whose progress
\* file holds the integer N is loaded with downloaded_size N; a recorded
\* downloading becomes paused, paused and error stay.
C20_LoadWithCheckpoint ==
    [][ \A i \in 1..Len(snapshot.downloads) :
          LET k == snapshot.downloads[i].filename
          IN  LoadsUnfinished(i) /\ progress[k] >= 0 =>
                /\ k \in DOMAIN downloads'
                /\ downloads'[k].downloaded_size = progress[k]
                /\ downloads'[k].status =
                      IF snapshot.downloads[i].status = "downloading" THEN "paused"
                      ELSE snapshot.downloads[i].status
                /\ progress'[k] = progress[k]
      ]_vars

\* a record saved as downloading with one size was loaded as paused with
\* the other size its progress file holds
C20_Witness ==
    /\ restarts < MaxRestarts
    /\ \E k \in DOMAIN downloads :
          /\ downloads[k].status = "paused"
          /\ progress[k] >= 0
          /\ downloads[k].downloaded_size = progress[k]
          /\ Recorded(snapshot, k)
          /\ snapshot.downloads[RecordOf(snapshot.downloads, k)].status = "downloading"
          /\ snapshot.downloads[RecordOf(snapshot.downloads, k)].downloaded_size # progress[k]

\* C21: when the manager is constructed over a snapshot file that is missing
\* or corrupt, the construction returns without an exception and the
\* collection is empty.
C21_LoadFailureNotFatal ==
    [][ \A tear \in {"none", "snapshot", "progress"}, t \in Threads :
          restart(tear, t, hashseed) /\ snapshot'.kind # "ok" =>
              /\ c'.pc = "idle" /\ c'.ret = "None"
              /\ downloads' = << >>
              /\ order' = << >>
      ]_vars

\* the step of thread t ends its attempt by a failure: the request or the
\* stream raises, a write raises, or the stream ends with a partial file
\* whose size is not the known total_size
AttemptFails(t) ==
    \/ process_request_fails(t)
    \/ process_stream_fails(t)
    \/ process_write_fails(t)
    \/ /\ process_stream_ends(t) \/ process_stream_ends_early(t)
       /\ Item(t).total_size > 0 /\ w[t].pos # Item(t).total_size

\* C22: a failure that ends an attempt leaves the item in error with a
\* message and the worker thread alive, on its way back to the loop; a
\* worker thread only ends when the global stop signal is set; and while the
\* worker runs every item on the queue is eventually taken into an attempt.
C22_WorkerSurvivesFailure ==
    /\ [][ \A t \in Threads :
              AttemptFails(t) =>
                  /\ downloads'[w[t].item].status = "error"
                  /\ downloads'[w[t].item].error_message # NoMsg
                  /\ w'[t].pc = "after" /\ w'[t].item = w[t].item
       ]_vars
    /\ [][ \A t \in Threads :
              is_alive(t) /\ ~is_alive(t)' => stop_event
       ]_vars
    /\ \A k \in Names :
          [](k \in Range(download_queue) /\ WorkerRunning =>
                <>(\E t \in Threads : w[t].item = k /\ w[t].pc \in InAttempt))

\* the attempt on one item ended in error, with its message, and the same
\* worker thread is in an attempt on the next item
C22_Witness ==
    \E t \in Threads, k \in DOMAIN downloads :
        /\ downloads[k].status = "error"
        /\ downloads[k].error_message # NoMsg
        /\ is_alive(t) /\ w[t].pc \in InAttempt /\ w[t].item # k
        /\ ~stop_event

\* C23: the filename of every item of the collection is the one its URL
\* derives to, in the process that created the item and in every later
\* process that loaded it; and add_download of a URL that an item of the
\* collection already has returns False and leaves the collection as it is.
C23_FilenameStable ==
    /\ [](\A k \in DOMAIN downloads :
            downloads[k].filename = _generate_filename(downloads[k].url, hashseed))
    /\ [][ \A url \in NameUrls :
              add_download(url) /\ (\E k \in DOMAIN downloads : downloads[k].url = url) =>
                  /\ c'.pc = "idle" /\ c'.ret = "False"
                  /\ UNCHANGED <<downloads, order>>
       ]_vars

\* C24: when the stream of an attempt ends without an exception, total_size
\* is known and the partial file has another size, the attempt ends in
\* error with the message of the incomplete transfer, the partial file
\* stays as it is, no final file is created and the rename is not reached.
C24_CompletionVerification ==
    [][ \A t \in Threads :
          /\ process_stream_ends(t) \/ process_stream_ends_early(t)
          /\ Item(t).total_size > 0 /\ w[t].pos # Item(t).total_size
          => LET f == w[t].item
             IN  /\ downloads'[f].status = "error"
                 /\ downloads'[f].error_message = IOErrorMessage("Incomplete")
                 /\ downloads'[f].downloaded_size = w[t].pos
                 /\ part'[f] = w[t].pos
                 /\ UNCHANGED <<final, progress>>
                 /\ w'[t].pc = "after"
      ]_vars

\* an attempt ended as an incomplete transfer: the item is in error, its
\* partial file is shorter than the known total_size and it has no final file
C24_Witness ==
    \E t \in Threads :
        /\ w[t].pc = "after"
        /\ Item(t).status = "error"
        /\ Item(t).error_message = IOErrorMessage("Incomplete")
        /\ Item(t).total_size = ResourceSize
        /\ part[w[t].item] \in 0..(ResourceSize - 1)
        /\ final[w[t].item] = NoFile

\* C25: a step of an attempt that sets the status of an item to completed
\* leaves downloaded_size = total_size = the size of the final file; and
\* when the stream ends while total_size is 0, total_size becomes the size
\* of the partial file.
C25_CompletedSizes ==
    /\ [][ \A k \in DOMAIN downloads :
              /\ restarts' = restarts
              /\ downloads[k].status # "completed"
              /\ downloads'[k].status = "completed"
              => /\ \E t \in Threads : process_finish(t) /\ w[t].item = k
                 /\ final'[k] # NoFile
                 /\ downloads'[k].downloaded_size = final'[k]
                 /\ downloads'[k].total_size = final'[k]
       ]_vars
    /\ [][ \A t \in Threads :
              /\ process_stream_ends(t) \/ process_stream_ends_early(t)
              /\ Item(t).total_size = 0
              => /\ downloads'[w[t].item].total_size = w[t].pos
                 /\ part'[w[t].item] = w[t].pos
                 /\ w'[t].pc = "rename"
       ]_vars

\* an attempt whose answer had no Content-Length and whose stream ended
\* after fewer than ResourceSize bytes has completed its item: total_size
\* is the size of the final file
C25_Witness ==
    \E t \in Threads :
        /\ w[t].pc = "after"
        /\ Item(t).status = "completed"
        /\ final[w[t].item] \in 1..(ResourceSize - 1)
        /\ Item(t).total_size = final[w[t].item]
        /\ Item(t).downloaded_size = final[w[t].item]

\* C26: when the request of an attempt is answered with an error status
\* (raise_for_status raises), the attempt ends in error with a message and
\* the step creates, changes and removes no file: the partial file, the
\* progress file and the final file are as the resume logic left them.
C26_UnexpectedResponse ==
    [][ \A t \in Threads :
          process_request_fails(t) =>
              /\ downloads'[w[t].item].status = "error"
              /\ downloads'[w[t].item].error_message # NoMsg
              /\ UNCHANGED <<part, progress, final>>
      ]_vars

\* the process is killed, no write being torn, while thread t streams an
\* attempt that began at byte 0 and has written a periodic checkpoint (the
\* progress file holds a positive value), the item being in the snapshot
PeriodicKill(t) ==
    /\ restart("none", t, hashseed)
    /\ w[t].pc = "stream"
    /\ ~w[t].is_resuming
    /\ progress[w[t].item] > 0
    /\ Recorded(snapshot, w[t].item)

\* C27: after a kill during the streaming of an item for which a periodic
\* checkpoint N > 0 was written, the files the new process finds make the
\* next attempt on the item resume (ResumeCase) from an offset that is at
\* least N, not start again from byte 0.
C27_PeriodicCheckpoint ==
    [][ \A t \in Threads :
          PeriodicKill(t) =>
              LET k == w[t].item
              IN  /\ k \in DOMAIN downloads'
                  /\ progress'[k] >= progress[k]
                  /\ ResumeCase(progress'[k], part'[k]) = "resume"
      ]_vars

\* C28: in every state, the integer in the progress file of an item is at
\* most the number of bytes its partial file holds on disk.
C28_CheckpointWithinPart ==
    \A k \in DOMAIN progress :
        progress[k] >= 0 => part[k] # NoFile /\ progress[k] <= part[k]

\* a signal that concerns the item thread t holds is set
Signalled(t) ==
    \/ downloads[w[t].item].pause_event
    \/ downloads[w[t].item].stop_event
    \/ stop_event

C30_SignalsClearAtAttempt ==
    /\ [][ \A t \in Threads :
              process_begin(t) =>
                  /\ ~downloads'[w[t].item].pause_event
                  /\ ~downloads'[w[t].item].stop_event
       ]_vars
    /\ [][ \A k \in DOMAIN downloads :
              /\ k \in DOMAIN downloads'
              /\ \/ ~downloads[k].pause_event /\ downloads'[k].pause_event
                 \/ ~downloads[k].stop_event /\ downloads'[k].stop_event
              => /\ downloads[k].status = "downloading"
                 /\ \E t \in Threads : w[t].item = k /\ w[t].pc \in InAttempt
       ]_vars
    /\ [](\A k \in DOMAIN downloads :
            downloads[k].status = "queued" => ~downloads[k].stop_event)

\* an item was paused by a signal, resumed with resume_download, and its
\* next attempt streams from the checkpoint with both signals clear
C30_Witness ==
    /\ c.pc = "idle" /\ c.op = "resume_download" /\ c.ret = "True"
    /\ \E t \in Threads :
          /\ w[t].pc = "stream"
          /\ w[t].is_resuming
          /\ ~Item(t).pause_event /\ ~Item(t).stop_event
          /\ ~stop_event

\* the status and the two signals of every item are left as they are
ItemsUntouched ==
    \A k \in DOMAIN downloads :
        /\ k \in DOMAIN downloads'
        /\ downloads'[k].status = downloads[k].status
        /\ downloads'[k].pause_event = downloads[k].pause_event
        /\ downloads'[k].stop_event = downloads[k].stop_event

\* C31: the lock sections, which are the steps that write the status or a
\* signal of an item, put nothing on the work queue and take nothing off
\* it: within a process run no step changes both the queue and the status
\* or a signal of an item.
C31_LockDiscipline ==
    [][ restarts' = restarts /\ download_queue' # download_queue => ItemsUntouched ]_vars

\* C32: within a process run the queue only changes by a put, which adds
\* items at its tail in the order of the puts, or by the get of a worker,
\* which takes its head; the worker that took an item begins the attempt on
\* it before it takes another, and there is one worker at a time: attempts
\* begin in the order of the puts.
C32_QueueIsFIFO ==
    /\ [][ restarts' = restarts /\ download_queue' # download_queue =>
              \/ \E t \in Threads :
                    /\ worker_get(t)
                    /\ download_queue # << >>
                    /\ w'[t].item = Head(download_queue)
                    /\ download_queue' = Tail(download_queue)
              \/ \E added \in {<<k>> : k \in Names} \cup {c.items} :
                    download_queue' = download_queue \o added
       ]_vars
    /\ [][ \A t \in Threads :
              w[t].pc = "got" /\ w'[t].pc # "got" /\ restarts' = restarts =>
                  \/ w'[t].pc = "begin" /\ w'[t].item = w[t].item
                  \/ w'[t].pc \in {"loop", "dead"} /\ w'[t].item = NoItem
       ]_vars
    /\ [](Cardinality({ t \in Threads : is_alive(t) /\ w[t].item # NoItem }) <= 1)

\* two items were put on the queue one after the other; the one put first
\* has had its attempt and the worker is in the attempt on the second
C32_Witness ==
    /\ Len(order) = 2
    /\ snapshot.kind = "ok" /\ Len(snapshot.downloads) = 2
    /\ restarts = MaxRestarts
    /\ download_queue = << >>
    /\ downloads[order[1]].status \in {"completed", "error"}
    /\ \E t \in Threads : w[t].pc \in InAttempt /\ w[t].item = order[2]

\* C33: in every state, an item whose status is queued is on the work queue,
\* or a live worker has taken it and is about to begin its attempt, or the
\* call that made it queued is about to put it on the queue.
C33_NoQueuedWorkLost ==
    \A k \in DOMAIN downloads :
        downloads[k].status = "queued" =>
            \/ k \in Range(download_queue)
            \/ \E t \in Threads :
                  is_alive(t) /\ w[t].item = k /\ w[t].pc \in {"got", "begin"}
            \/ c.pc = "add_put" /\ c.arg = k
            \/ c.pc \in {"resume_all_put", "start_put"} /\ k \in Range(c.items)

\* C34: while an attempt streams, downloaded_size of its item is the
\* position in the partial file: the offset the attempt began at plus the
\* bytes it has written; an attempt that writes from byte 0 begins with
\* downloaded_size 0.
C34_DownloadedIsPosition ==
    \A t \in Threads :
        w[t].pc = "stream" => downloads[w[t].item].downloaded_size = w[t].pos

\* C35: in every state, no item is on the work queue twice, and an item a
\* live worker holds inside an attempt (its pause-out included) is not on
\* the work queue with status paused.
C35_QueuedOnce ==
    /\ \A i, j \in 1..Len(download_queue) :
          i # j => download_queue[i] # download_queue[j]
    /\ \A t \in Threads :
          /\ is_alive(t)
          /\ w[t].pc \in InAttempt \cup {"pause_seen", "pause_out"}
          /\ w[t].item \in Range(download_queue)
          => downloads[w[t].item].status # "paused"

\* C36: a save never replaces a snapshot file that holds the serialization
\* of the current collection by one that does not: a state list built
\* earlier is not written over one built later.
C36_SnapshotLinearizable ==
    [][ /\ snapshot' # snapshot
        /\ restarts' = restarts
        /\ snapshot.kind = "ok"
        /\ snapshot.downloads = StateList
        => snapshot'.downloads = StateList'
    ]_vars

\* C37: in every state, an item whose status is paused has a checkpoint
\* file, and the value in it is the length of the partial file.
C37_PausedHasCheckpoint ==
    \A k \in DOMAIN downloads :
        downloads[k].status = "paused" =>
            /\ progress[k] # NoFile
            /\ part[k] # NoFile
            /\ progress[k] = part[k]

C39_MessageIffError ==
    \A k \in DOMAIN downloads :
        downloads[k].error_message # NoMsg <=> downloads[k].status = "error"

====
